---- MODULE Spec2Model ----
(***************************************************************************)
(* jsonpath_ng/ext/filter.py: the filter extension of the JSONPath engine. *)
(* Filter, Negation, Conjunction, Disjunction and Expression are modelled  *)
(* as operators over JSON values; the Python semantics the code relies on  *)
(* (int(), bool(), ==, <, re.search, isinstance, exceptions) are modelled  *)
(* by what they do on the values of the model.                             *)
(***************************************************************************)
EXTENDS Integers, Sequences, FiniteSets, TLC

\* Bounds of the model.
MaxInt == 3
MaxLen == 3

(***************************************************************************)
(* JSON values.  Every value is a record of the same shape:                *)
(*   t     the Python type: "int", "bool", "str", "null", "list", "map"    *)
(*   n     the number of an int, 1/0 of a bool                             *)
(*   s     the text of a str                                               *)
(*   keys  the keys of a map, in iteration order                           *)
(*   items the elements of a list, the values of a map (in key order)      *)
(***************************************************************************)
Val(t, n, s, keys, items) ==
    [t |-> t, n |-> n, s |-> s, keys |-> keys, items |-> items]
IntV(n) == Val("int", n, "", <<>>, <<>>)
BoolV(b) == Val("bool", IF b THEN 1 ELSE 0, "", <<>>, <<>>)
StrV(s) == Val("str", 0, s, <<>>, <<>>)
NullV == Val("null", 0, "", <<>>, <<>>)
ListV(items) == Val("list", 0, "", <<>>, items)
MapV(keys, items) == Val("map", 0, "", keys, items)

\* The texts of the model and their characters (TLC's strings are atomic).
Strs == {"1", "x", "a1", "^a"}
Chars(s) ==
    CASE s = "1" -> <<"1">>
      [] s = "x" -> <<"x">>
      [] s = "a1" -> <<"a", "1">>
      [] s = "^a" -> <<"^", "a">>
      [] OTHER -> <<>>
Digits == {"0", "1", "2", "3", "4", "5", "6", "7", "8", "9"}
DigitVal(c) ==
    CASE c = "0" -> 0 [] c = "1" -> 1 [] c = "2" -> 2 [] c = "3" -> 3
      [] c = "4" -> 4 [] c = "5" -> 5 [] c = "6" -> 6 [] c = "7" -> 7
      [] c = "8" -> 8 [] c = "9" -> 9
\* The code point of a character, for the ordering of str.
Ord(c) ==
    CASE c \in Digits -> 48 + DigitVal(c)
      [] c = "^" -> 94
      [] c = "a" -> 97
      [] c = "x" -> 120

RECURSIVE DigitsValue(_, _)
DigitsValue(cs, acc) ==
    IF cs = <<>> THEN acc
    ELSE DigitsValue(Tail(cs), 10 * acc + DigitVal(Head(cs)))

(***************************************************************************)
(* Python built-ins on JSON values.  A conversion or comparison yields     *)
(* [err, val]: err is "" or the exception raised.                          *)
(***************************************************************************)
Good(v) == [err |-> "", val |-> v]
Bad(e) == [err |-> e, val |-> NullV]

\* int(str): an optional sign, then decimal digits; anything else raises
\* ValueError.
ParseInt(s) ==
    LET cs == Chars(s)
        signed == cs # <<>> /\ Head(cs) \in {"+", "-"}
        ds == IF signed THEN Tail(cs) ELSE cs
    IN  IF ds # <<>> /\ \A i \in 1..Len(ds) : ds[i] \in Digits
        THEN Good(IntV(IF signed /\ Head(cs) = "-"
                       THEN 0 - DigitsValue(ds, 0) ELSE DigitsValue(ds, 0)))
        ELSE Bad("ValueError")

\* int(value)
PyInt(v) ==
    CASE v.t = "int" -> Good(v)
      [] v.t = "bool" -> Good(IntV(v.n))
      [] v.t = "str" -> ParseInt(v.s)
      [] OTHER -> Bad("TypeError")

\* the truth value of a value: bool(value), `if value`, `not value`
PyTruth(v) ==
    CASE v.t \in {"int", "bool"} -> v.n # 0
      [] v.t = "str" -> v.s # ""
      [] v.t = "null" -> FALSE
      [] OTHER -> v.items # <<>>

\* bool(value): raises for no JSON value
PyBool(v) == Good(BoolV(PyTruth(v)))

\* isinstance(x, int): bool is a subclass of int
IsInstanceInt(v) == v.t \in {"int", "bool"}
\* isinstance(x, bool)
IsInstanceBool(v) == v.t = "bool"

IsNum(v) == v.t \in {"int", "bool"}

\* operator.eq: numbers by value (True == 1), else same type and content
PyEq(a, b) ==
    IF IsNum(a) /\ IsNum(b) THEN a.n = b.n
    ELSE a.t = b.t /\ a = b

RECURSIVE SeqLess(_, _)
\* lexicographic order of two sequences of code points
SeqLess(x, y) ==
    IF y = <<>> THEN FALSE
    ELSE IF x = <<>> THEN TRUE
    ELSE IF Head(x) # Head(y) THEN Head(x) < Head(y)
    ELSE SeqLess(Tail(x), Tail(y))

Ords(s) == [i \in 1..Len(Chars(s)) |-> Ord(Chars(s)[i])]

\* operator.lt: defined between numbers and between strs; a comparand of
\* the model is a scalar, and a scalar against any other type raises
\* TypeError.
PyLt(a, b) ==
    IF IsNum(a) /\ IsNum(b) THEN [err |-> "", b |-> a.n < b.n]
    ELSE IF a.t = "str" /\ b.t = "str"
         THEN [err |-> "", b |-> SeqLess(Ords(a.s), Ords(b.s))]
    ELSE [err |-> "TypeError", b |-> FALSE]

RECURSIVE PrefixAt(_, _, _)
\* the characters of p occur in cs from position i on
PrefixAt(p, cs, i) ==
    IF p = <<>> THEN TRUE
    ELSE IF i > Len(cs) THEN FALSE
    ELSE cs[i] = Head(p) /\ PrefixAt(Tail(p), cs, i + 1)

\* re.search(pattern, text) is not None, for the patterns of the model: an
\* optional "^" anchor, then literal characters.  Both arguments must be
\* str, else TypeError.
ReSearch(pattern, text) ==
    IF pattern.t # "str" \/ text.t # "str"
    THEN [err |-> "TypeError", b |-> FALSE]
    ELSE LET p == Chars(pattern.s)
             cs == Chars(text.s)
         IN  IF p # <<>> /\ Head(p) = "^"
             THEN [err |-> "", b |-> PrefixAt(Tail(p), cs, 1)]
             ELSE [err |-> "",
                   b |-> \E i \in 1..(Len(cs) + 1) : PrefixAt(p, cs, i)]

\* The keys of OPERATOR_MAP.
OperatorKeys == {"!=", "==", "=", "<=", "<", ">=", ">", "=~"}

\* operator.le and operator.ge from the result r of the opposite strict order
Ordered(op, r) ==
    [err |-> r.err, b |-> r.err = "" /\ (IF op \in {"<", ">"} THEN r.b ELSE ~r.b)]

\* OPERATOR_MAP[op](a, b), op a key of the table: [err, b].
\*   a > b is b < a, a <= b is not b < a, a >= b is not a < b
OPERATOR_MAP(op, a, b) ==
    CASE op = "!=" -> [err |-> "", b |-> ~PyEq(a, b)]
      [] op \in {"==", "="} -> [err |-> "", b |-> PyEq(a, b)]
      [] op \in {"<", ">", "<=", ">="} ->
            Ordered(op, PyLt(IF op \in {"<", ">="} THEN a ELSE b,
                             IF op \in {"<", ">="} THEN b ELSE a))
      [] op = "=~" -> ReSearch(b, a)

(***************************************************************************)
(* The engine's collaborators (jsonpath_ng/jsonpath.py, not in src/):       *)
(* DatumInContext, its wrap operation, the path segments and the find of   *)
(* the query nodes used as target and as comparand.                        *)
(***************************************************************************)
NoContext == [none |-> TRUE]
This == [seg |-> "This"]
Index(i) == [seg |-> "Index", i |-> i]
FieldsPath(k) == [seg |-> "Fields", k |-> k]

\* DatumInContext(value, path, context)
DatumInContext(value, path, context) ==
    [value |-> value, path |-> path, context |-> context]
IsDatum(d) == "value" \in DOMAIN d

\* DatumInContext.wrap: an already wrapped value is returned as it is
Wrap(d) == IF IsDatum(d) THEN d ELSE DatumInContext(d, This, NoContext)

\* The query nodes: Fields(k) is the child named k of a mapping, and
\* Fields("*") is every child of a mapping, in key order.
Fields(k) == [q |-> "Fields", k |-> k]
\* isinstance(x, JSONPath)
IsJSONPath(x) == "q" \in DOMAIN x

\* query.find(datum): the ordered results, each a DatumInContext
QueryFind(query, datum) ==
    LET v == datum.value
        hit == IF v.t # "map" THEN {}
               ELSE {i \in 1..Len(v.keys) : query.k \in {"*", v.keys[i]}}
        Pick(i) == hit # {} /\ i \in hit
    IN  IF v.t # "map" THEN <<>>
        ELSE LET idx == SelectSeq([i \in 1..Len(v.keys) |-> i], Pick)
             IN  [j \in 1..Len(idx) |->
                    DatumInContext(v.items[idx[j]], FieldsPath(v.keys[idx[j]]),
                                   datum)]

(***************************************************************************)
(* The result of a find: a list of DatumInContext, a bool, or an           *)
(* exception that propagates to the caller.  log is the sequence of calls  *)
(* the evaluation made, in order.                                          *)
(***************************************************************************)
Ok(list, log) ==
    [status |-> "ok", isBool |-> FALSE, b |-> FALSE, list |-> list, log |-> log]
OkBool(b, log) ==
    [status |-> "ok", isBool |-> TRUE, b |-> b, list |-> <<>>, log |-> log]
Raise(err, log) ==
    [status |-> err, isBool |-> FALSE, b |-> FALSE, list |-> <<>>, log |-> log]
\* the truth value of a returned result: a non-empty list or True
Truthy(r) == IF r.isBool THEN r.b ELSE r.list # <<>>
\* the returned value (or exception) without the log
Returned(r) == [status |-> r.status, isBool |-> r.isBool, b |-> r.b, list |-> r.list]

Ev(kind, id, arg) == [ev |-> kind, id |-> id, arg |-> arg]

(***************************************************************************)
(* The nodes.  Each carries an id, so that the log tells which node was    *)
(* called.  op is "None" for None.                                         *)
(***************************************************************************)
NoOp == "None"
Expression(id, target, op, value) ==
    [kind |-> "Expression", id |-> id, target |-> target, op |-> op, value |-> value]
Negation(id, e) == [kind |-> "Negation", id |-> id, expression_to_negate |-> e]
Conjunction(id, l, r) == [kind |-> "Conjunction", id |-> id, left |-> l, right |-> r]
Disjunction(id, l, r) == [kind |-> "Disjunction", id |-> id, left |-> l, right |-> r]

\* What one iteration of the loop of Expression.find does next.
Continue(st) == [ctl |-> "next", st |-> st, ret |-> Ok(<<>>, <<>>)]
Return(st, ret) == [ctl |-> "return", st |-> st, ret |-> ret]

\* the log once OPERATOR_MAP[self.op] has been looked up
Looked(e, st) == Append(st.log, Ev("lookup", e.id, [op |-> e.op]))

\* Lines 176-177, r the comparator's result: append the match
Compared(e, dat, st, r) ==
    IF r.err # "" THEN Return(st, Raise(r.err, Looked(e, st)))
    ELSE Continue([st EXCEPT !.log = Looked(e, st),
                             !.found = IF r.b THEN Append(@, dat) ELSE @])

\* Compare with the table read as OPERATOR_MAP.get(op): an unknown symbol
\* compares as no match instead of raising
CompareLenient(e, dat, value, st) ==
    IF e.op \notin OperatorKeys THEN Continue([st EXCEPT !.log = Looked(e, st)])
    ELSE Compared(e, dat, st, OPERATOR_MAP(e.op, value, st.comparedValue))

\* Lines 176-177: look the operator up, apply it to (value, comparedValue)
Compare(e, dat, value, st) ==
    IF e.op \notin OperatorKeys THEN Return(st, Raise("KeyError", Looked(e, st)))
    ELSE Compared(e, dat, st, OPERATOR_MAP(e.op, value, st.comparedValue))

\* Lines 161-164, comparedValueDatum the comparand query's results on ctx
Resolved(e, dat, st, ctx, comparedValueDatum) ==
    IF comparedValueDatum = <<>>
    THEN Return(st, Ok(<<>>, Append(st.log, Ev("comparand", e.id, ctx))))
    ELSE Compare(e, dat, dat.value,
                 [st EXCEPT !.comparedValue = comparedValueDatum[1].value,
                            !.log = Append(@, Ev("comparand", e.id, ctx))])

\* Lines 165-174: the conversion the comparand's type selects
Coerce(comparedValue, value) ==
    IF IsInstanceInt(comparedValue) THEN PyInt(value)
    ELSE IF IsInstanceBool(comparedValue) THEN PyBool(value)
    ELSE Good(value)

\* Lines 166-177, c the conversion's outcome: `except ValueError: continue`
Coerced(e, dat, st, c) ==
    IF c.err = "ValueError" THEN Continue(st)
    ELSE IF c.err # "" THEN Return(st, Raise(c.err, st.log))
    ELSE Compare(e, dat, c.val, st)

\* The resolved comparand is not kept: r is what the iteration did
Forgetting(st, r) ==
    IF r.ctl = "next" THEN Continue([r.st EXCEPT !.comparedValue = st.comparedValue])
    ELSE r
\* ExprStep resolving the comparand query at every iteration
ExprStepUncached(e, datum, dat, st) ==
    IF IsJSONPath(st.comparedValue)
    THEN Forgetting(st, Resolved(e, dat, st, Wrap(datum),
                                 QueryFind(st.comparedValue, Wrap(datum))))
    ELSE Coerced(e, dat, st, Coerce(st.comparedValue, dat.value))

\* Lines 159-177: the body of `for data in targetDatum`.
\* st = [found, comparedValue, log]
ExprStep(e, datum, dat, st) ==
    IF IsJSONPath(st.comparedValue)
    THEN Resolved(e, dat, st, Wrap(datum), QueryFind(st.comparedValue, Wrap(datum)))
    ELSE Coerced(e, dat, st, Coerce(st.comparedValue, dat.value))

RECURSIVE ExprLoop(_, _, _, _, _)
\* r is what the k-th iteration did: go on with the next or return
ExprNext(e, datum, targetDatum, k, r) ==
    IF r.ctl = "next" THEN ExprLoop(e, datum, targetDatum, k + 1, r.st)
    ELSE r.ret

\* Lines 158-179: the loop over the target's results, from the k-th on
ExprLoop(e, datum, targetDatum, k, st) ==
    IF k > Len(targetDatum) THEN Ok(st.found, st.log)
    ELSE ExprNext(e, datum, targetDatum, k, ExprStep(e, datum, targetDatum[k], st))

\* Lines 151-179, targetDatum the target's results
ExpressionFound(e, datum, targetDatum, log) ==
    IF targetDatum = <<>> THEN Ok(<<>>, log)
    ELSE IF e.op = NoOp THEN Ok(targetDatum, log)
    ELSE ExprLoop(e, datum, targetDatum, 1,
                  [found |-> <<>>, comparedValue |-> e.value, log |-> log])

\* Expression.find(datum); log is the calls made so far.
ExpressionFind(e, datum, log) ==
    ExpressionFound(e, datum, QueryFind(e.target, Wrap(datum)),
                    Append(log, Ev("target", e.id, Wrap(datum))))

RECURSIVE Find(_, _, _)

\* `not r`
Negated(r) == IF r.status # "ok" THEN r ELSE OkBool(~Truthy(r), r.log)
\* Negation.find
NegationFind(e, datum, log) == Negated(Find(e.expression_to_negate, datum, log))

\* `False if not l else self.right.find(datum)`
ConjunctionRight(e, datum, l) ==
    IF l.status # "ok" THEN l
    ELSE IF ~Truthy(l) THEN OkBool(FALSE, l.log)
    ELSE Find(e.right, datum, l.log)
\* both conjuncts evaluated, then combined
ConjunctionBoth(l, r) ==
    IF l.status # "ok" THEN l
    ELSE IF r.status # "ok" THEN r
    ELSE IF ~Truthy(l) THEN OkBool(FALSE, r.log)
    ELSE r
\* Conjunction.find without the short circuit
ConjunctionEager(e, datum, log) ==
    ConjunctionBoth(Find(e.left, datum, log),
                    Find(e.right, datum, Find(e.left, datum, log).log))

\* Conjunction.find
ConjunctionFind(e, datum, log) == ConjunctionRight(e, datum, Find(e.left, datum, log))

\* `True if l else self.right.find(datum)`
DisjunctionRight(e, datum, l) ==
    IF l.status # "ok" THEN l
    ELSE IF Truthy(l) THEN OkBool(TRUE, l.log)
    ELSE Find(e.right, datum, l.log)
\* Disjunction.find
DisjunctionFind(e, datum, log) == DisjunctionRight(e, datum, Find(e.left, datum, log))

\* e.find(datum): the dispatch on the node's class; every call is logged.
Find(e, datum, log) ==
    CASE e.kind = "Expression" ->
            ExpressionFind(e, datum, Append(log, Ev("find", e.id, Wrap(datum))))
      [] e.kind = "Negation" ->
            NegationFind(e, datum, Append(log, Ev("find", e.id, Wrap(datum))))
      [] e.kind = "Conjunction" ->
            ConjunctionFind(e, datum, Append(log, Ev("find", e.id, Wrap(datum))))
      [] e.kind = "Disjunction" ->
            DisjunctionFind(e, datum, Append(log, Ev("find", e.id, Wrap(datum))))

(***************************************************************************)
(* Filter.                                                                 *)
(***************************************************************************)
NoExpression == [kind |-> "None", id |-> 0]
Filter(expression) == [expression |-> expression]

\* Selected with the position counted from 1
SelectedFromOne(datum, i) == DatumInContext(datum.value.items[i], Index(i), datum)

\* Line 51: the result built for index i (1-based here, 0-based in Index)
Selected(datum, i) == DatumInContext(datum.value.items[i], Index(i - 1), datum)

RECURSIVE FindLoop(_, _, _, _, _)
\* Line 52, r what self.expression.find(datum.value[i]) returned
FindNext(e, datum, i, result, r) ==
    IF r.status # "ok" THEN [status |-> r.status, ret |-> <<>>, log |-> r.log]
    ELSE FindLoop(e, datum, i + 1,
                  IF Truthy(r) THEN Append(result, Selected(datum, i)) ELSE result,
                  r.log)

\* Lines 51-52: the list comprehension, from index i on
FindLoop(e, datum, i, result, log) ==
    IF i > Len(datum.value.items)
    THEN [status |-> "ok", ret |-> result, log |-> log]
    ELSE FindNext(e, datum, i, result, Find(e, datum.value.items[i], log))

\* Lines 45-54, datum the wrapped argument; arg is the caller's argument as
\* the call leaves it: a DatumInContext passed in is the very object that
\* `datum.value = ...` assigns to.
FilterFound(flt, d, datum, r) ==
    [status |-> r.status, ret |-> r.ret, log |-> r.log,
     arg |-> IF IsDatum(d) THEN datum ELSE d]

\* Lines 45-46: a mapping is replaced by the list of its values
ValuesOf(w) ==
    IF w.value.t = "map" THEN [w EXCEPT !.value = ListV(w.value.items)] ELSE w

\* Lines 48-54
FilterSelect(flt, d, datum, log) ==
    IF datum.value.t # "list"
    THEN FilterFound(flt, d, datum, [status |-> "ok", ret |-> <<>>, log |-> log])
    ELSE FilterFound(flt, d, datum, FindLoop(flt.expression, datum, 1, <<>>, log))

\* Filter.find(d), d a raw value or a DatumInContext
FilterFind(flt, d, log) ==
    IF flt.expression.kind = "None"
    THEN [status |-> "ok", ret |-> d, log |-> log, arg |-> d]
    ELSE FilterSelect(flt, d, ValuesOf(Wrap(d)), log)

\* hasattr(val, '__call__')
IsCallable(val) == "fn" \in DOMAIN val
\* The caller's updaters, called as val(data[index], data, index):
\*   set_index   coll[i] = i
\*   set_next    coll[i + 1] = v when there is such a position
Updater(fn, v) == [fn |-> fn, v |-> v]
CallUpdater(val, items, index) ==
    CASE val.fn = "set_index" -> [items EXCEPT ![index] = IntV(index - 1)]
      [] val.fn = "set_next" ->
            IF index < Len(items) THEN [items EXCEPT ![index + 1] = val.v]
            ELSE items

\* UpdateItem writing one position too far
UpdateItemShifted(val, items, index) ==
    IF IsCallable(val) THEN CallUpdater(val, items, index)
    ELSE IF index < Len(items) THEN [items EXCEPT ![index + 1] = val]
    ELSE items

\* Lines 61-64: what a matching index gets
UpdateItem(val, items, index) ==
    IF IsCallable(val) THEN CallUpdater(val, items, index)
    ELSE [items EXCEPT ![index] = val]

RECURSIVE UpdateLoop(_, _, _, _, _)
\* Lines 59-64, shouldUpdate what self.expression.find(item) returned
UpdateNext(flt, items, val, index, shouldUpdate) ==
    IF shouldUpdate.status # "ok"
    THEN [status |-> shouldUpdate.status, items |-> items, log |-> shouldUpdate.log]
    ELSE UpdateLoop(flt,
                    IF Truthy(shouldUpdate) THEN UpdateItem(val, items, index)
                    ELSE items,
                    val, index + 1, shouldUpdate.log)

\* Lines 58-64: `for index, item in enumerate(data)`, from index on; items
\* is what the list holds now, and item is read from it at each iteration.
UpdateLoop(flt, items, val, index, log) ==
    IF index > Len(items) THEN [status |-> "ok", items |-> items, log |-> log]
    ELSE IF flt.expression.kind = "None"
    THEN [status |-> "AttributeError", items |-> items, log |-> log]
    ELSE UpdateNext(flt, items, val, index,
                    Find(flt.expression, items[index],
                         Append(log, Ev("item", index - 1, items[index]))))

\* line 65: the list as the loop leaves it is what update returns
Updated(r) == [status |-> r.status, ret |-> ListV(r.items), log |-> r.log]

\* Filter.update(d, val)
FilterUpdate(flt, d, val, log) ==
    IF ~IsDatum(d) /\ d.t = "list"
    THEN Updated(UpdateLoop(flt, d.items, val, 1, log))
    ELSE [status |-> "ok", ret |-> d, log |-> log]

(***************************************************************************)
(* The values, queries and nodes the model draws its inputs from.          *)
(***************************************************************************)
Ints == 0..MaxInt
Scalars ==
    {IntV(n) : n \in Ints} \cup {StrV(s) : s \in Strs}
        \cup {NullV, BoolV(TRUE), BoolV(FALSE)}
Atoms == Scalars \cup {ListV(<<>>), MapV(<<>>, <<>>)}
A(x) == MapV(<<"a">>, <<x>>)
AB(x, y) == MapV(<<"a", "b">>, <<x, y>>)

\* the contexts an expression is evaluated on
Contexts ==
    {A(x) : x \in Atoms} \cup {AB(x, y) : x \in Atoms, y \in Scalars}
        \cup {IntV(0)}

UnknownOp == "~~"
Comparands == Scalars \cup {Fields("b")}
Leaves(id) ==
    {Expression(id, t, NoOp, NullV) : t \in {Fields("a"), Fields("*")}}
        \cup {Expression(id, t, op, v) :
                t \in {Fields("a"), Fields("*")},
                op \in OperatorKeys \cup {UnknownOp},
                v \in Comparands}
\* the sub-expressions of the combinators
Probes(id) ==
    {Expression(id, Fields("a"), NoOp, NullV),
     Expression(id, Fields("b"), NoOp, NullV),
     Expression(id, Fields("a"), ">", IntV(1)),
     Expression(id, Fields("a"), "==", Fields("b")),
     Expression(id, Fields("b"), UnknownOp, IntV(1)),
     Negation(id, Expression(id + 10, Fields("a"), "==", BoolV(TRUE)))}
Negations == {Negation(1, e) : e \in Probes(2)}
Conjunctions == {Conjunction(1, l, r) : l \in Probes(2), r \in Probes(3)}
Disjunctions == {Disjunction(1, l, r) : l \in Probes(2), r \in Probes(3)}

\* the caller's collections: the elements of the documented update
\* scenario, [{"a":1},{"a":2},{"a":3}], and one whose "a" is null
CollElems == {A(IntV(1)), A(IntV(2)), A(IntV(3)), A(NullV)}
RECURSIVE ListsUpTo(_)
ListsUpTo(n) ==
    IF n = 0 THEN {<<>>}
    ELSE LET shorter == ListsUpTo(n - 1)
         IN  shorter \cup {Append(l, x) : l \in {m \in shorter : Len(m) = n - 1},
                                          x \in CollElems}
Key(i) == CASE i = 1 -> "k1" [] i = 2 -> "k2" [] i = 3 -> "k3" [] OTHER -> "k4"
RawInputs ==
    {ListV(l) : l \in ListsUpTo(MaxLen)}
        \cup {MapV([i \in 1..Len(l) |-> Key(i)], l) : l \in ListsUpTo(MaxLen - 1)}
        \cup {IntV(0)}
\* the caller passes a raw value or a DatumInContext
Inputs == RawInputs \cup {Wrap(d) : d \in RawInputs}

Filters ==
    {Filter(NoExpression),
     Filter(Expression(1, Fields("a"), ">", IntV(1))),
     Filter(Expression(1, Fields("a"), NoOp, NullV)),
     Filter(Negation(1, Expression(2, Fields("a"), "=", IntV(2)))),
     Filter(Disjunction(1, Expression(2, Fields("a"), "==", NullV),
                           Expression(3, Fields("a"), "<", IntV(2))))}
Updates ==
    {A(IntV(0)), Updater("set_index", NullV), Updater("set_next", A(IntV(2)))}

(***************************************************************************)
(* The state: the object the caller holds and passes to Filter (a raw      *)
(* value or a DatumInContext), and the last call with what it returned.    *)
(***************************************************************************)
VARIABLES data, call
vars == <<data, call>>

NoCall == [op |-> "init"]

Init == /\ data \in Inputs
        /\ call = NoCall

\* the call returned (or raised) r and left the caller's object as `after`
Called(op, flt, val, r, after) ==
    /\ data' = after
    /\ call' = [op |-> op, flt |-> flt, val |-> val, before |-> data,
                status |-> r.status, ret |-> r.ret, log |-> r.log]
FindReturned(flt, r) == Called("find", flt, NullV, r, r.arg)
UpdateReturned(flt, val, r) == Called("update", flt, val, r, r.ret)

\* Filter(e).find(data)
FilterFindCall ==
    \E flt \in Filters : FindReturned(flt, FilterFind(flt, data, <<>>))

\* Filter(e).update(data, val)
FilterUpdateCall ==
    \E flt \in Filters, val \in Updates :
        UpdateReturned(flt, val, FilterUpdate(flt, data, val, <<>>))

Next == FilterFindCall \/ FilterUpdateCall
Spec == Init /\ [][Next]_vars

\* The expression classes called directly on a context.  find is a pure
\* function of the node and the context, so a behaviour makes one call.
EvalInit == /\ data = ListV(<<>>)
            /\ call = NoCall
Evaluate(e, ctx) ==
    /\ call' = [op |-> "eval", e |-> e, ctx |-> ctx, r |-> Find(e, ctx, <<>>)]
    /\ UNCHANGED data
ExpressionFindCall ==
    call.op = "init" /\ \E e \in Leaves(1), ctx \in Contexts : Evaluate(e, ctx)
NegationFindCall ==
    call.op = "init" /\ \E e \in Negations, ctx \in Contexts : Evaluate(e, ctx)
ConjunctionFindCall ==
    call.op = "init" /\ \E e \in Conjunctions, ctx \in Contexts : Evaluate(e, ctx)
DisjunctionFindCall ==
    call.op = "init" /\ \E e \in Disjunctions, ctx \in Contexts : Evaluate(e, ctx)
EvalNext ==
    \/ ExpressionFindCall
    \/ NegationFindCall
    \/ ConjunctionFindCall
    \/ DisjunctionFindCall
SpecEval == EvalInit /\ [][EvalNext]_vars

(***************************************************************************)
(* The claims.                                                             *)
(***************************************************************************)
IsEval == call.op = "eval"
IsExpressionCall == IsEval /\ call.e.kind = "Expression"
\* the target's results on the call's context
TargetDatum == QueryFind(call.e.target, Wrap(call.ctx))
\* how many events of this kind the call logged for node id
CountEv(log, kind, id) ==
    Cardinality({k \in 1..Len(log) : log[k].ev = kind /\ log[k].id = id})
OrderingOps == OperatorKeys \ {"=~"}

\* The result set an operator and an integer comparand are said to give:
\* the target results whose value converts to an integer satisfying the
\* comparator, the others left out.
IntCoercedMatch(d) ==
    /\ PyInt(d.value).err = ""
    /\ OPERATOR_MAP(call.e.op, PyInt(d.value).val, call.e.value).b
\* C2: with an operator and an integer comparand, a target result whose
\* value cannot be coerced to an integer (a non-numeric string, null, a list
\* or a mapping) is left out without an error, and the remaining results
\* are still evaluated.
C2_IncoercibleIsSkipped ==
    (IsExpressionCall /\ call.e.op \in OrderingOps
        /\ ~IsJSONPath(call.e.value) /\ call.e.value.t = "int")
    => /\ call.r.status = "ok"
       /\ call.r.list = SelectSeq(TargetDatum, IntCoercedMatch)

\* the same Expression with the literal v as its comparand
WithLiteral(e, v) == [e EXCEPT !.value = v]
ResolvedComparand == QueryFind(call.e.value, Wrap(call.ctx))
\* C3: with a nested-query comparand that resolves to an integer v, find
\* returns what the same Expression with the literal comparand v returns:
\* every target result, the first included, is coerced to an integer.
C3_QueryComparandAsLiteral ==
    (IsExpressionCall /\ call.e.op \in OperatorKeys /\ IsJSONPath(call.e.value)
        /\ ResolvedComparand # <<>> /\ ResolvedComparand[1].value.t = "int")
    => Returned(call.r)
         = Returned(Find(WithLiteral(call.e, ResolvedComparand[1].value),
                         call.ctx, <<>>))

BoolCoercedMatch(d) ==
    OPERATOR_MAP(call.e.op, BoolV(PyTruth(d.value)), call.e.value).b
\* C4: with an operator and a boolean comparand, each target result is
\* compared by its truth value (boolean coercion, not integer coercion), and
\* no value that has a truth value is skipped.
C4_BooleanCoercion ==
    (IsExpressionCall /\ call.e.op \in OrderingOps
        /\ ~IsJSONPath(call.e.value) /\ call.e.value.t = "bool")
    => /\ call.r.status = "ok"
       /\ call.r.list = SelectSeq(TargetDatum, BoolCoercedMatch)

IsUnknownOpCall ==
    IsExpressionCall /\ call.e.op # NoOp /\ call.e.op \notin OperatorKeys
\* C5 as stated: every find with an unknown operator ends in the
\* unknown-operator error, for every context.
C5_UnknownOpAlwaysRaises == IsUnknownOpCall => call.r.status = "KeyError"

\* the k-th target result is the first the loop does not skip, and its
\* conversion raises nothing
FirstCompared(k) ==
    /\ Coerce(call.e.value, TargetDatum[k].value).err = ""
    /\ \A j \in 1..(k - 1) :
          Coerce(call.e.value, TargetDatum[j].value).err = "ValueError"
\* the evaluation gets to the lookup in the comparator table
ReachesLookup ==
    /\ TargetDatum # <<>>
    /\ IF IsJSONPath(call.e.value) THEN ResolvedComparand # <<>>
       ELSE \E k \in 1..Len(TargetDatum) : FirstCompared(k)
\* C5 amended: a find with an unknown operator never returns a non-empty
\* result set; it ends in the unknown-operator error exactly when the
\* evaluation reaches the table lookup, and returns the empty result set
\* when the target yields nothing.
C5_UnknownOpRaisesAtLookup ==
    IsUnknownOpCall
    => /\ call.r.status = "ok" => call.r.list = <<>>
       /\ call.r.status = "KeyError" <=> ReachesLookup
       /\ TargetDatum = <<>> => call.r.status = "ok"
C5_Witness ==
    /\ IsUnknownOpCall
    /\ call.r.status = "KeyError"
    /\ Len(TargetDatum) = 2
    /\ ~IsJSONPath(call.e.value)
    /\ Coerce(call.e.value, TargetDatum[1].value).err = "ValueError"

IsCombinatorCall == IsEval /\ call.e.kind \in {"Conjunction", "Disjunction"}
LeftResult == Find(call.e.left, call.ctx, <<>>)
RightResult == Find(call.e.right, call.ctx, <<>>)
\* the left result on which the combinator does not evaluate the right
ShortCircuits ==
    IF call.e.kind = "Conjunction" THEN ~Truthy(LeftResult) ELSE Truthy(LeftResult)
\* C6: Conjunction.find and Disjunction.find evaluate the left operand
\* exactly once; on a falsy (Conjunction) or truthy (Disjunction) left result
\* they return the bool False (True) and never evaluate the right operand,
\* otherwise they return exactly what the right operand returns; so the
\* result's truth value is truthy(L) AND truthy(R), or truthy(L) OR truthy(R).
C6_ShortCircuit ==
    IsCombinatorCall
    => /\ CountEv(call.r.log, "find", call.e.left.id) = 1
       /\ LeftResult.status # "ok" => Returned(call.r) = Returned(LeftResult)
       /\ (LeftResult.status = "ok" /\ ShortCircuits)
            => /\ Returned(call.r)
                    = Returned(OkBool(call.e.kind = "Disjunction", <<>>))
               /\ CountEv(call.r.log, "find", call.e.right.id) = 0
       /\ (LeftResult.status = "ok" /\ ~ShortCircuits)
            => /\ Returned(call.r) = Returned(RightResult)
               /\ CountEv(call.r.log, "find", call.e.right.id) = 1
       /\ call.r.status = "ok"
            => Truthy(call.r)
                 = IF call.e.kind = "Conjunction"
                   THEN Truthy(LeftResult) /\ Truthy(RightResult)
                   ELSE Truthy(LeftResult) \/ Truthy(RightResult)
\* a Conjunction whose left operand is falsy and whose right operand would
\* raise had it been evaluated
C6_Witness ==
    /\ IsEval /\ call.e.kind = "Conjunction"
    /\ LeftResult.status = "ok" /\ ~Truthy(LeftResult)
    /\ RightResult.status = "KeyError"
    /\ call.r.status = "ok" /\ call.r.isBool /\ ~call.r.b

IsQueryComparandCall ==
    IsExpressionCall /\ call.e.op # NoOp /\ IsJSONPath(call.e.value)
\* C10: in one find with an operator and a nested-query comparand, the
\* comparand query is resolved at most once, exactly once when the target
\* yields a result, always against the context passed to find; when it
\* yields nothing the call returns the empty result set.
C10_ComparandResolvedOnce ==
    IsQueryComparandCall
    => /\ CountEv(call.r.log, "comparand", call.e.id)
            = IF TargetDatum = <<>> THEN 0 ELSE 1
       /\ \A k \in 1..Len(call.r.log) :
             call.r.log[k].ev = "comparand" => call.r.log[k].arg = Wrap(call.ctx)
       /\ (TargetDatum # <<>> /\ ResolvedComparand = <<>>)
            => call.r.status = "ok" /\ call.r.list = <<>>
C10_Witness ==
    /\ IsQueryComparandCall
    /\ Len(TargetDatum) = 2
    /\ call.r.status = "ok" /\ Len(call.r.list) = 2
    /\ CountEv(call.r.log, "comparand", call.e.id) = 1

IsFindCall == call.op = "find" /\ call.flt.expression.kind # "None"
IsUpdateCall == call.op = "update" /\ call.flt.expression.kind # "None"
\* the list a call was given: a raw list, or the list a DatumInContext held
BeforeValue == IF IsDatum(call.before) THEN call.before.value ELSE call.before
BeforeItems == BeforeValue.items
\* what the filter's expression returns on the element originally at i
OnOriginal(i) == Find(call.flt.expression, BeforeItems[i], <<>>)
Hits == {i \in 1..Len(BeforeItems) : Truthy(OnOriginal(i))}
SomeRaises == \E i \in 1..Len(BeforeItems) : OnOriginal(i).status # "ok"

\* C1: on a list S, Filter(E).find returns exactly the elements S[i] on
\* which E.find is truthy, in ascending order of i, none repeated or
\* dropped, each with the path Index(i) and the input datum as context (an
\* exception of E.find propagates).
C1_FindSelectsInOrder ==
    (IsFindCall /\ BeforeValue.t = "list")
    => IF SomeRaises THEN call.status # "ok"
       ELSE /\ call.status = "ok"
            /\ Len(call.ret) = Cardinality(Hits)
            /\ \A j \in 1..Len(call.ret) :
                  /\ call.ret[j].path.seg = "Index"
                  /\ call.ret[j].path.i + 1 \in Hits
                  /\ call.ret[j].value = BeforeItems[call.ret[j].path.i + 1]
                  /\ call.ret[j].context = Wrap(call.before)
                  /\ j > 1 => call.ret[j - 1].path.i < call.ret[j].path.i
C1_Witness ==
    /\ IsFindCall /\ BeforeValue.t = "list" /\ Len(BeforeItems) = 3
    /\ call.status = "ok" /\ Len(call.ret) = 2
    /\ call.ret[1].path.i = 0 /\ call.ret[2].path.i = 2

IsPlainUpdate == IsUpdateCall /\ ~IsCallable(call.val) /\ ~IsDatum(call.before)
\* C7: update with a non-callable val returns the same list, its length
\* unchanged, holding val exactly at the positions whose original element
\* the expression is truthy on, and the original element elsewhere.
C7_UpdateOverwritesMatches ==
    (IsPlainUpdate /\ BeforeValue.t = "list")
    => /\ call.status = "ok" <=> ~SomeRaises
       /\ call.ret = data
       /\ call.status = "ok"
            => /\ Len(data.items) = Len(BeforeItems)
               /\ \A i \in 1..Len(BeforeItems) :
                     data.items[i] = IF i \in Hits THEN call.val ELSE BeforeItems[i]
\* [{a:1},{a:2},{a:3}] with the predicate a > 1 and val {a:0}
C7_Witness ==
    /\ IsPlainUpdate
    /\ call.flt = Filter(Expression(1, Fields("a"), ">", IntV(1)))
    /\ call.val = A(IntV(0))
    /\ call.before = ListV(<<A(IntV(1)), A(IntV(2)), A(IntV(3))>>)
    /\ data = ListV(<<A(IntV(1)), A(IntV(0)), A(IntV(0))>>)

\* C8: find does not mutate its input: after Filter(E).find(d), d (a raw
\* value or a DatumInContext) and d.value are what they were before.
C8_FindLeavesInput == call.op = "find" => data = call.before

\* C9: with a callable updater, the match decision for index i is taken on
\* the element the list held at i when update was called, whatever the
\* updater did to later positions while handling an earlier index.
C9_DecisionsOnOriginal ==
    (IsUpdateCall /\ IsCallable(call.val) /\ ~IsDatum(call.before)
        /\ BeforeValue.t = "list")
    => \A k \in 1..Len(call.log) :
          call.log[k].ev = "item"
            => call.log[k].arg = BeforeItems[call.log[k].id + 1]
====
